---------------------------- MODULE Spec2Model ----------------------------
(***************************************************************************)
(* Model of src/app.py, class EmotionDetector: the lexical scoring engine  *)
(* (preprocess_text, detect_emojis, calculate_emotion_scores,              *)
(* predict_emotion) and the batch aggregator (get_emotion_statistics).     *)
(*                                                                         *)
(* Representation.                                                         *)
(*  - A Python str is a sequence of characters; a character is a           *)
(*    one-character TLA+ string, and a non-ASCII code point is written     *)
(*    "U+XXXX".  The emoji that end in VARIATION SELECTOR-16 are therefore *)
(*    two characters long, as they are in Python.                          *)
(*  - A float score is stored as the integer number of quarters it holds   *)
(*    (1.0 is 4, 1.5 is 6, 2.0 is 8, 0.5 is 2, -0.5 is -2).  Every value   *)
(*    the code can produce is a small multiple of 0.25, which binary       *)
(*    floating point represents and adds exactly, so nothing is rounded.   *)
(*  - A dict is a function; the iteration order of the emotion dicts is    *)
(*    the insertion order happy, sad, angry, surprise, fear (EmotionOrder).*)
(***************************************************************************)
EXTENDS Integers, Sequences, FiniteSets, TLC

VARIABLES
    text,            \* predict_emotion: the argument
    pc,              \* the position in the running call
    words,           \* calculate_emotion_scores: processed_text.split()
    i,               \* calculate_emotion_scores: the index of enumerate(words), from 1
    emotion_scores,  \* calculate_emotion_scores: the accumulators
    result,          \* predict_emotion: the returned (label, scores)
    texts,           \* get_emotion_statistics: the argument
    emotions,        \* get_emotion_statistics: the labels collected so far
    emotion_counts,  \* get_emotion_statistics: the Counter, as (order, count)
    statistics       \* get_emotion_statistics: the returned dict

vars == <<text, pc, words, i, emotion_scores, result,
          texts, emotions, emotion_counts, statistics>>

(***************************************************************************)
(* Bounds of the model.                                                    *)
(***************************************************************************)
\* The longest input text, counted in chunks of Atoms.
MaxChunks == 3

\* The longest batch handed to get_emotion_statistics.
MaxBatch == 3

(***************************************************************************)
(* The lexicon: EmotionDetector.__init__                                   *)
(***************************************************************************)
EmotionOrder == <<"happy", "sad", "angry", "surprise", "fear">>

Emotions == {EmotionOrder[n] : n \in 1..Len(EmotionOrder)}

Labels == Emotions \cup {"neutral"}

emotion_keywords ==
    [ happy |-> <<
          <<"h","a","p","p","y">>, <<"j","o","y">>, <<"e","x","c","i","t","e","d">>,
          <<"g","r","e","a","t">>, <<"a","w","e","s","o","m","e">>,
          <<"w","o","n","d","e","r","f","u","l">>, <<"f","a","n","t","a","s","t","i","c">>,
          <<"l","o","v","e">>, <<"e","x","c","e","l","l","e","n","t">>,
          <<"a","m","a","z","i","n","g">>, <<"p","e","r","f","e","c","t">>,
          <<"g","o","o","d">>, <<"b","e","s","t">>, <<"b","e","a","u","t","i","f","u","l">>,
          <<"g","l","a","d">>, <<"d","e","l","i","g","h","t","e","d">>,
          <<"p","l","e","a","s","e","d">>, <<"c","h","e","e","r","f","u","l">>,
          <<"b","l","e","s","s","e","d">>, <<"g","r","a","t","e","f","u","l">>,
          <<"w","o","n","d","e","r","f","u","l">>, <<"b","r","i","l","l","i","a","n","t">>,
          <<"f","a","b","u","l","o","u","s">>, <<"y","a","y">>, <<"w","o","o","h","o","o">>,
          <<"c","e","l","e","b","r","a","t","e">> >>,
      sad |-> <<
          <<"s","a","d">>, <<"u","n","h","a","p","p","y">>,
          <<"d","e","p","r","e","s","s","e","d">>, <<"m","i","s","e","r","a","b","l","e">>,
          <<"d","i","s","a","p","p","o","i","n","t","e","d">>, <<"h","u","r","t">>,
          <<"l","o","n","e","l","y">>, <<"d","o","w","n">>, <<"c","r","y">>,
          <<"t","e","a","r","s">>, <<"u","p","s","e","t">>,
          <<"h","e","a","r","t","b","r","o","k","e","n">>, <<"a","w","f","u","l">>,
          <<"t","e","r","r","i","b","l","e">>, <<"b","a","d">>, <<"w","o","r","s","t">>,
          <<"h","o","r","r","i","b","l","e">>,
          <<"u","n","f","o","r","t","u","n","a","t","e">>, <<"r","e","g","r","e","t">>,
          <<"s","o","r","r","y">>, <<"m","i","s","s">>, <<"g","r","i","e","f">>,
          <<"s","o","r","r","o","w">>, <<"d","e","s","p","a","i","r">>,
          <<"g","l","o","o","m","y">> >>,
      angry |-> <<
          <<"a","n","g","r","y">>, <<"m","a","d">>, <<"f","u","r","i","o","u","s">>,
          <<"r","a","g","e">>, <<"h","a","t","e">>, <<"a","n","n","o","y","e","d">>,
          <<"i","r","r","i","t","a","t","e","d">>,
          <<"f","r","u","s","t","r","a","t","e","d">>, <<"o","u","t","r","a","g","e","d">>,
          <<"p","i","s","s","e","d">>, <<"d","i","s","g","u","s","t","e","d">>,
          <<"s","t","u","p","i","d">>, <<"i","d","i","o","t">>, <<"d","a","m","n">>,
          <<"h","e","l","l">>, <<"f","u","c","k">>, <<"s","h","i","t">>,
          <<"a","n","n","o","y","i","n","g">>, <<"p","a","t","h","e","t","i","c">>,
          <<"r","i","d","i","c","u","l","o","u","s">>,
          <<"u","n","a","c","c","e","p","t","a","b","l","e">>, <<"s","i","c","k">>,
          <<"f","e","d"," ","u","p">>, <<"i","n","f","u","r","i","a","t","e","d">>,
          <<"l","i","v","i","d">> >>,
      surprise |-> <<
          <<"w","o","w">>, <<"o","m","g">>, <<"s","h","o","c","k","e","d">>,
          <<"s","u","r","p","r","i","s","e","d">>,
          <<"u","n","e","x","p","e","c","t","e","d">>, <<"a","m","a","z","i","n","g">>,
          <<"u","n","b","e","l","i","e","v","a","b","l","e">>,
          <<"i","n","c","r","e","d","i","b","l","e">>,
          <<"a","s","t","o","n","i","s","h","e","d">>, <<"s","t","u","n","n","e","d">>,
          <<"w","h","o","a">>, <<"u","n","e","x","p","e","c","t","e","d">>,
          <<"s","u","d","d","e","n">>, <<"s","h","o","c","k">>,
          <<"s","t","a","r","t","l","e","d">>, <<"s","p","e","e","c","h","l","e","s","s">>,
          <<"m","i","n","d","-","b","l","o","w","i","n","g">>, <<"w","t","f">>,
          <<"r","e","m","a","r","k","a","b","l","e">>,
          <<"e","x","t","r","a","o","r","d","i","n","a","r","y">> >>,
      fear |-> <<
          <<"s","c","a","r","e","d">>, <<"a","f","r","a","i","d">>, <<"f","e","a","r">>,
          <<"w","o","r","r","i","e","d">>, <<"a","n","x","i","o","u","s">>,
          <<"n","e","r","v","o","u","s">>, <<"t","e","r","r","i","f","i","e","d">>,
          <<"p","a","n","i","c">>, <<"f","r","i","g","h","t","e","n","e","d">>,
          <<"c","o","n","c","e","r","n">>, <<"t","h","r","e","a","t">>,
          <<"d","a","n","g","e","r">>, <<"r","i","s","k">>, <<"s","c","a","r","y">>,
          <<"h","o","r","r","o","r">>, <<"d","r","e","a","d">>,
          <<"a","l","a","r","m","e","d">>, <<"p","a","r","a","n","o","i","d">>,
          <<"u","n","e","a","s","y">>, <<"t","e","n","s","e">>, <<"s","t","r","e","s","s">>,
          <<"n","i","g","h","t","m","a","r","e">>, <<"p","h","o","b","i","a">> >> ]

emotion_emojis ==
    [ happy |-> <<
          <<"U+1F60A">>, <<"U+1F600">>, <<"U+1F603">>, <<"U+1F604">>, <<"U+1F601">>,
          <<"U+1F642">>, <<"U+1F60D">>, <<"U+1F970">>, <<"U+1F618">>, <<"U+2764","U+FE0F">>,
          <<"U+1F495">>, <<"U+1F389">>, <<"U+1F44D">>, <<"U+2728">> >>,
      sad |-> <<
          <<"U+1F622">>, <<"U+1F62D">>, <<"U+1F61E">>, <<"U+1F614">>, <<"U+1F61F">>,
          <<"U+1F641">>, <<"U+2639","U+FE0F">>, <<"U+1F494">>, <<"U+1F625">>, <<"U+1F62A">> >>,
      angry |-> <<
          <<"U+1F620">>, <<"U+1F621">>, <<"U+1F92C">>, <<"U+1F624">>, <<"U+1F4A2">>,
          <<"U+1F47F">>, <<"U+1F63E">> >>,
      surprise |-> <<
          <<"U+1F632">>, <<"U+1F62E">>, <<"U+1F62F">>, <<"U+1F633">>, <<"U+1F92F">>,
          <<"U+203C","U+FE0F">>, <<"U+2049","U+FE0F">> >>,
      fear |-> <<
          <<"U+1F628">>, <<"U+1F630">>, <<"U+1F631">>, <<"U+1F640">>, <<"U+1F627">>,
          <<"U+1F626">> >> ]

intensifiers ==
    << <<"v","e","r","y">>, <<"r","e","a","l","l","y">>,
       <<"e","x","t","r","e","m","e","l","y">>, <<"s","o">>,
       <<"i","n","c","r","e","d","i","b","l","y">>,
       <<"a","b","s","o","l","u","t","e","l","y">>, <<"t","o","t","a","l","l","y">>,
       <<"c","o","m","p","l","e","t","e","l","y">>, <<"u","t","t","e","r","l","y">>,
       <<"s","u","p","e","r">>, <<"q","u","i","t","e">> >>

negations ==
    << <<"n","o","t">>, <<"n","o">>, <<"n","e","v","e","r">>,
       <<"n","e","i","t","h","e","r">>, <<"n","o","b","o","d","y">>,
       <<"n","o","t","h","i","n","g">>, <<"n","o","w","h","e","r","e">>,
       <<"n","o","n","e">>, <<"n","'","t">>, <<"h","a","r","d","l","y">>,
       <<"b","a","r","e","l","y">> >>

\* string.punctuation; the grave accent is written by its code point.
punctuation ==
    { "!", "\"", "#", "$", "%", "&", "'", "(", ")", "*", "+", ",", "-", ".", "/", ":",
      ";", "<", "=", ">", "?", "@", "[", "\\", "]", "^", "_", "U+0060", "{", "|", "}", "~" }

(***************************************************************************)
(* Python's str and list primitives, as the code uses them                 *)
(***************************************************************************)
\* x in lst
In(x, lst) == \E n \in 1..Len(lst) : lst[n] = x

\* str.isspace for one character: what str.split(), str.strip() and the
\* regular expression's \S tell apart.
IsSpace(c) == c \in {" ", "\t", "\n", "\r", "\f"}

\* The regular expression's "." : any character but a newline.
Dot(c) == c # "\n"

UpperCase == <<"A","B","C","D","E","F","G","H","I","J","K","L","M",
               "N","O","P","Q","R","S","T","U","V","W","X","Y","Z">>

LowerCase == <<"a","b","c","d","e","f","g","h","i","j","k","l","m",
               "n","o","p","q","r","s","t","u","v","w","x","y","z">>

\* str.lower, one character
LowerChar(c) ==
    IF \E n \in 1..Len(UpperCase) : UpperCase[n] = c
    THEN LowerCase[CHOOSE n \in 1..Len(UpperCase) : UpperCase[n] = c]
    ELSE c

\* str.lower
Lower(s) == [n \in 1..Len(s) |-> LowerChar(s[n])]

\* s[p:].startswith(pat), p counted from 1
StartsAt(s, p, pat) ==
    /\ p + Len(pat) - 1 <= Len(s)
    /\ \A n \in 1..Len(pat) : s[p + n - 1] = pat[n]

\* The end of \S+ started at p: the first index at or after p that holds
\* whitespace, or Len(s) + 1.
RECURSIVE NonSpaceEnd(_, _)
NonSpaceEnd(s, p) ==
    IF p > Len(s) \/ IsSpace(s[p]) THEN p ELSE NonSpaceEnd(s, p + 1)

\* http\S+ at p: the index after the match, or 0 for no match.
HttpMatch(s, p) ==
    IF /\ StartsAt(s, p, <<"h","t","t","p">>)
       /\ p + 4 <= Len(s)
       /\ ~IsSpace(s[p + 4])
    THEN NonSpaceEnd(s, p + 4)
    ELSE 0

\* www.\S+ at p: the index after the match, or 0 for no match.  The dot is
\* not escaped in the pattern, so it stands for any character but a newline.
WwwMatch(s, p) ==
    IF /\ StartsAt(s, p, <<"w","w","w">>)
       /\ p + 4 <= Len(s)
       /\ Dot(s[p + 3])
       /\ ~IsSpace(s[p + 4])
    THEN NonSpaceEnd(s, p + 4)
    ELSE 0

\* The alternation http\S+|www.\S+ at p: the first alternative that matches.
UrlMatch(s, p) ==
    IF HttpMatch(s, p) # 0 THEN HttpMatch(s, p) ELSE WwwMatch(s, p)

\* re.sub(pattern, '', s) from p on: the leftmost matches are cut out, and
\* the scan goes on behind each match.
RECURSIVE ReSub(_, _)
ReSub(s, p) ==
    IF p > Len(s) THEN <<>>
    ELSE IF UrlMatch(s, p) # 0 THEN ReSub(s, UrlMatch(s, p))
    ELSE <<s[p]>> \o ReSub(s, p + 1)

\* str.split() from p on: the maximal runs of non-whitespace, in order.
RECURSIVE Split(_, _)
Split(s, p) ==
    IF p > Len(s) THEN <<>>
    ELSE IF IsSpace(s[p]) THEN Split(s, p + 1)
    ELSE <<SubSeq(s, p, NonSpaceEnd(s, p) - 1)>> \o Split(s, NonSpaceEnd(s, p))

\* str.strip(chars): the leading and the trailing characters of the set go.
RECURSIVE LStrip(_, _)
LStrip(s, chars) ==
    IF s # <<>> /\ Head(s) \in chars THEN LStrip(Tail(s), chars) ELSE s

RECURSIVE RStrip(_, _)
RStrip(s, chars) ==
    IF s # <<>> /\ s[Len(s)] \in chars
    THEN RStrip(SubSeq(s, 1, Len(s) - 1), chars)
    ELSE s

Strip(s, chars) == RStrip(LStrip(s, chars), chars)

\* str.count(sub) from p on: the occurrences of sub that do not overlap,
\* found from the left.
RECURSIVE Count(_, _, _)
Count(s, sub, p) ==
    IF p + Len(sub) - 1 > Len(s) THEN 0
    ELSE IF StartsAt(s, p, sub) THEN 1 + Count(s, sub, p + Len(sub))
    ELSE Count(s, sub, p + 1)

\* not text alone, without the test of text.strip().
IsBlank_EmptyOnly(s) == s = <<>>

\* not text or not text.strip()
IsBlank(s) == s = <<>> \/ \A n \in 1..Len(s) : IsSpace(s[n])

(***************************************************************************)
(* The numbers of the scoring rule, in quarters                            *)
(***************************************************************************)
\* intensity = 1.0
PlainIntensity == 4

\* intensity = 1.5
BoostedIntensity == 6

\* score * 2.0, the weight of one emoji occurrence
EmojiWeight == 8

\* max_score < 0.5
Threshold == 2

\* score *= -0.5
Negated(score) == (0 - score) \div 2

\* A label spelled in another case than the six of the closed set.
Neutral_Capitalised == "Neutral"

\* The label of a text in which no emotion is detected.
Neutral == "neutral"

(***************************************************************************)
(* EmotionDetector.preprocess_text                                         *)
(***************************************************************************)
preprocess_text(t) == ReSub(Lower(t), 1)

(***************************************************************************)
(* EmotionDetector.detect_emojis                                           *)
(***************************************************************************)
\* emoji_scores[emotion] += text.count(emoji), for emoji in emojis[n:]
RECURSIVE CountEmojis(_, _, _)
CountEmojis(t, emojis, n) ==
    IF n > Len(emojis) THEN 0
    ELSE Count(t, emojis[n], 1) + CountEmojis(t, emojis, n + 1)

\* A count of the glyphs present, not of their occurrences.
detect_emojis_presence(t) ==
    [e \in Emotions |->
        Cardinality({n \in 1..Len(emotion_emojis[e]) :
            Count(t, emotion_emojis[e][n], 1) > 0})]

detect_emojis(t) == [e \in Emotions |-> CountEmojis(t, emotion_emojis[e], 1)]

(***************************************************************************)
(* EmotionDetector.calculate_emotion_scores                                *)
(***************************************************************************)
\* A negation looked for among all the words before, not only the last.
is_negated_anywhere(ws, n) == \E k \in 1..(n - 1) : In(ws[k], negations)

\* words[i-1] in self.negations, for the word at n = i + 1
is_negated(ws, n) == n > 1 /\ In(ws[n - 1], negations)

\* 1.5 if words[i-1] in self.intensifiers, else 1.0
intensity(ws, n) ==
    IF n > 1 /\ In(ws[n - 1], intensifiers) THEN BoostedIntensity ELSE PlainIntensity

\* word.strip(string.punctuation)
word_clean(ws, n) == Strip(ws[n], punctuation)

\* The score one matching keyword adds.
score(ws, n) ==
    IF is_negated(ws, n) THEN Negated(intensity(ws, n)) ELSE intensity(ws, n)

\* emotion_scores = {emotion: 0.0 for emotion in self.emotion_keywords.keys()}
ZeroScores == [e \in Emotions |-> 0]

\* emotion_scores[emotion] += score * 2.0, for every emotion
AddEmojis(acc, t) ==
    [e \in DOMAIN acc |-> acc[e] + detect_emojis(t)[e] * EmojiWeight]

\* One turn of the loop over enumerate(words).
ScoreWord(acc, ws, n) ==
    [e \in DOMAIN acc |->
        IF In(word_clean(ws, n), emotion_keywords[e])
        THEN acc[e] + score(ws, n)
        ELSE acc[e]]

\* The loop from word n on.
RECURSIVE ScoreWords(_, _, _)
ScoreWords(acc, ws, n) ==
    IF n > Len(ws) THEN acc ELSE ScoreWords(ScoreWord(acc, ws, n), ws, n + 1)

calculate_emotion_scores(t) ==
    ScoreWords(AddEmojis(ZeroScores, t), Split(preprocess_text(t), 1), 1)

(***************************************************************************)
(* EmotionDetector.predict_emotion                                         *)
(***************************************************************************)
\* all(score == 0 for score in emotion_scores.values())
AllZero(s) == \A e \in DOMAIN s : s[e] = 0

\* The last key that holds the highest value, not the first.
max_emotion_last(s) ==
    EmotionOrder[CHOOSE n \in 1..Len(EmotionOrder) :
        /\ \A k \in 1..Len(EmotionOrder) : s[EmotionOrder[k]] <= s[EmotionOrder[n]]
        /\ \A k \in (n + 1)..Len(EmotionOrder) : s[EmotionOrder[k]] < s[EmotionOrder[n]]]

\* max(emotion_scores, key=emotion_scores.get): the first key, in the dict's
\* order, whose value no other key's value exceeds.
max_emotion(s) ==
    EmotionOrder[CHOOSE n \in 1..Len(EmotionOrder) :
        /\ \A k \in 1..Len(EmotionOrder) : s[EmotionOrder[k]] <= s[EmotionOrder[n]]
        /\ \A k \in 1..(n - 1) : s[EmotionOrder[k]] < s[EmotionOrder[n]]]

\* The decision with max_score <= 0.5 for the test of line 144.
Decide_InclusiveThreshold(s) ==
    IF AllZero(s) THEN [emotion |-> Neutral, scores |-> s]
    ELSE IF s[max_emotion(s)] <= Threshold THEN [emotion |-> Neutral, scores |-> s]
    ELSE [emotion |-> max_emotion(s), scores |-> s]

\* The decision on computed scores, lines 136 to 147.
Decide(s) ==
    IF AllZero(s) THEN [emotion |-> Neutral, scores |-> s]
    ELSE IF s[max_emotion(s)] < Threshold THEN [emotion |-> Neutral, scores |-> s]
    ELSE [emotion |-> max_emotion(s), scores |-> s]

predict_emotion(t) ==
    IF IsBlank(t) THEN [emotion |-> Neutral, scores |-> <<>>]
    ELSE Decide(calculate_emotion_scores(t))

(***************************************************************************)
(* EmotionDetector.get_emotion_statistics                                  *)
(***************************************************************************)
\* Counter(emotions) over emotions[n:], added to c: the keys in the order of
\* their first occurrence, and the count of each.
RECURSIVE Counter(_, _, _)
Counter(c, ems, n) ==
    IF n > Len(ems) THEN c
    ELSE IF In(ems[n], c.order)
    THEN Counter([c EXCEPT !.count[ems[n]] = @ + 1], ems, n + 1)
    ELSE Counter([order |-> Append(c.order, ems[n]),
                  count |-> (ems[n] :> 1) @@ c.count], ems, n + 1)

\* The last key that holds the highest count, not the first.
most_common_last(c) ==
    c.order[CHOOSE n \in 1..Len(c.order) :
        /\ \A k \in 1..Len(c.order) : c.count[c.order[k]] <= c.count[c.order[n]]
        /\ \A k \in (n + 1)..Len(c.order) : c.count[c.order[k]] < c.count[c.order[n]]]

\* Counter.most_common(1)[0][0]: max(items, key=count), the first key in the
\* Counter's order that holds the highest count.
most_common(c) ==
    c.order[CHOOSE n \in 1..Len(c.order) :
        /\ \A k \in 1..Len(c.order) : c.count[c.order[k]] <= c.count[c.order[n]]
        /\ \A k \in 1..(n - 1) : c.count[c.order[k]] < c.count[c.order[n]]]

\* round((count / total) * 100, 2), in hundredths of a percent.  No tie of
\* the rounding arises for a total below 32.
Percentage(count, total) == (2 * 10000 * count + total) \div (2 * total)

\* The guard left out: the first of most_common(1) is always taken.
HasEmotions_Always(ems) == TRUE

\* if emotions
HasEmotions(ems) == ems # <<>>

\* The dict built at lines 169 to 179, or the exception its evaluation raises.
BuildStatistics(ems, c, total) ==
    IF c.order # <<>> /\ total = 0 THEN [raised |-> "ZeroDivisionError"]
    ELSE IF HasEmotions(ems) /\ c.order = <<>> THEN [raised |-> "IndexError"]
    ELSE [total_texts |-> total,
          emotion_distribution |->
              [e \in DOMAIN c.count |->
                  [count |-> c.count[e], percentage |-> Percentage(c.count[e], total)]],
          dominant_emotion |-> IF HasEmotions(ems) THEN most_common(c) ELSE "neutral"]

(***************************************************************************)
(* The inputs                                                              *)
(***************************************************************************)
\* The pieces the input texts are put together from: keywords of two
\* emotions, one of them capitalised, a keyword two emotions share, a
\* negation, an intensifier, white space, punctuation, the two URL prefixes
\* and an emoji of the happy lexicon.
Chunks ==
    { <<"h","a","p","p","y">>, <<"h","a","p","p","y"," ">>, <<"S","a","d">>,
      <<"a","m","a","z","i","n","g">>, <<"n","o","t">>, <<"n","o","t"," ">>,
      <<"r","e","a","l","l","y"," ">>, <<" ">>, <<"!">>, <<"w","w","w">>,
      <<"h","t","t","p">>, <<"U+1F60A">> }

RECURSIVE Concat(_, _)
Concat(cs, n) == IF n > Len(cs) THEN <<>> ELSE cs[n] \o Concat(cs, n + 1)

\* Every text of at most MaxChunks pieces.
Inputs ==
    {Concat(cs, 1) : cs \in UNION {[1..n -> Chunks] : n \in 0..MaxChunks}}

\* The texts the batches are drawn from: labelled happy, sad, happy (a
\* shared keyword) and neutral (a negated keyword).
Samples ==
    { <<"h","a","p","p","y">>, <<"S","a","d">>, <<"a","m","a","z","i","n","g">>,
      <<"n","o","t"," ","h","a","p","p","y">> }

\* Every batch of at most MaxBatch texts.
Batches == UNION {[1..n -> Samples] : n \in 0..MaxBatch}

(***************************************************************************)
(* The state before a call                                                 *)
(***************************************************************************)
NoScores == <<>>

NoResult == [emotion |-> "", scores |-> <<>>]

NoCounter == [order |-> <<>>, count |-> <<>>]

NoStatistics == [raised |-> ""]

\* A call of predict_emotion(text), not yet begun.
Init ==
    /\ text \in Inputs
    /\ pc = "call"
    /\ words = <<>>
    /\ i = 0
    /\ emotion_scores = NoScores
    /\ result = NoResult
    /\ texts = <<>>
    /\ emotions = <<>>
    /\ emotion_counts = NoCounter
    /\ statistics = NoStatistics

\* A call of get_emotion_statistics(texts), not yet begun.
InitStatistics ==
    /\ texts \in Batches
    /\ pc = "statistics"
    /\ emotions = <<>>
    /\ emotion_counts = NoCounter
    /\ statistics = NoStatistics
    /\ text = <<>>
    /\ words = <<>>
    /\ i = 0
    /\ emotion_scores = NoScores
    /\ result = NoResult

(***************************************************************************)
(* predict_emotion, step by step                                           *)
(***************************************************************************)
batch == <<texts, emotions, emotion_counts, statistics>>

\* Lines 130-131: the empty or blank text returns at once.
ReturnBlank ==
    /\ pc = "call"
    /\ IsBlank(text)
    /\ result' = [emotion |-> Neutral, scores |-> <<>>]
    /\ pc' = "done"
    /\ UNCHANGED <<text, words, i, emotion_scores, batch>>

\* Lines 133, 87-90: calculate_emotion_scores is entered.
Preprocess ==
    /\ pc = "call"
    /\ ~IsBlank(text)
    /\ words' = Split(preprocess_text(text), 1)
    /\ emotion_scores' = ZeroScores
    /\ pc' = "emojis"
    /\ UNCHANGED <<text, i, result, batch>>

\* Lines 93-95: the emoji of the original text are counted and weighted.
AddEmojiScores ==
    /\ pc = "emojis"
    /\ emotion_scores' = AddEmojis(emotion_scores, text)
    /\ i' = 1
    /\ pc' = "words"
    /\ UNCHANGED <<text, words, result, batch>>

\* Lines 98-121: one word of the loop.
AnalyzeWord ==
    /\ pc = "words"
    /\ i <= Len(words)
    /\ emotion_scores' = ScoreWord(emotion_scores, words, i)
    /\ i' = i + 1
    /\ UNCHANGED <<text, pc, words, result, batch>>

\* Line 123: the loop is over and the accumulators are returned.
ReturnScores ==
    /\ pc = "words"
    /\ i > Len(words)
    /\ pc' = "decide"
    /\ UNCHANGED <<text, words, i, emotion_scores, result, batch>>

\* Lines 136-137: no emotion detected.
ReturnNoEmotion ==
    /\ pc = "decide"
    /\ AllZero(emotion_scores)
    /\ result' = Decide(emotion_scores)
    /\ pc' = "done"
    /\ UNCHANGED <<text, words, i, emotion_scores, batch>>

\* Lines 140-145: the highest score is too low.
ReturnLowScore ==
    /\ pc = "decide"
    /\ ~AllZero(emotion_scores)
    /\ emotion_scores[max_emotion(emotion_scores)] < Threshold
    /\ result' = Decide(emotion_scores)
    /\ pc' = "done"
    /\ UNCHANGED <<text, words, i, emotion_scores, batch>>

\* Lines 140-147: the dominant emotion is returned.
ReturnDominant ==
    /\ pc = "decide"
    /\ ~AllZero(emotion_scores)
    /\ ~(emotion_scores[max_emotion(emotion_scores)] < Threshold)
    /\ result' = Decide(emotion_scores)
    /\ pc' = "done"
    /\ UNCHANGED <<text, words, i, emotion_scores, batch>>

Next ==
    \/ ReturnBlank
    \/ Preprocess
    \/ AddEmojiScores
    \/ AnalyzeWord
    \/ ReturnScores
    \/ ReturnNoEmotion
    \/ ReturnLowScore
    \/ ReturnDominant

Spec == Init /\ [][Next]_vars

(***************************************************************************)
(* get_emotion_statistics, step by step                                    *)
(***************************************************************************)
single == <<text, words, i, emotion_scores, result>>

\* Line 165: the next text of the comprehension is classified.
ClassifyText ==
    /\ pc = "statistics"
    /\ Len(emotions) < Len(texts)
    /\ emotions' = Append(emotions, predict_emotion(texts[Len(emotions) + 1]).emotion)
    /\ UNCHANGED <<pc, texts, emotion_counts, statistics, single>>

\* Lines 166-167: the labels are counted.
CountEmotions ==
    /\ pc = "statistics"
    /\ Len(emotions) = Len(texts)
    /\ emotion_counts' = Counter(NoCounter, emotions, 1)
    /\ pc' = "build"
    /\ UNCHANGED <<texts, emotions, statistics, single>>

\* Lines 169-181: the statistics are built and returned.
ReturnStatistics ==
    /\ pc = "build"
    /\ statistics' = BuildStatistics(emotions, emotion_counts, Len(texts))
    /\ pc' = "returned"
    /\ UNCHANGED <<texts, emotions, emotion_counts, single>>

NextStatistics ==
    \/ ClassifyText
    \/ CountEmotions
    \/ ReturnStatistics

SpecStatistics == InitStatistics /\ [][NextStatistics]_vars

(***************************************************************************)
(* The vocabulary of the properties, defined on its own terms              *)
(***************************************************************************)
\* A text with a character that is not white space.
HasVisibleChar(t) == \E n \in 1..Len(t) : t[n] \notin {" ", "\t", "\n", "\r", "\f"}

\* The highest of the values of a score vector.
MaxScore(s) == CHOOSE m \in {s[e] : e \in DOMAIN s} : \A e \in DOMAIN s : s[e] <= m

\* The glyph occurrences of an emotion in a text: the places a glyph starts at.
Occurrences(t, e) ==
    Cardinality({<<p, g>> \in (1..Len(t)) \X (1..Len(emotion_emojis[e])) :
        /\ p + Len(emotion_emojis[e][g]) - 1 <= Len(t)
        /\ SubSeq(t, p, p + Len(emotion_emojis[e][g]) - 1) = emotion_emojis[e][g]})

\* The places of a token that hold no punctuation.
Solid(w) == {n \in 1..Len(w) : w[n] \notin punctuation}

\* A token as a keyword of an emotion: the token without the punctuation
\* around it is one of the emotion's keywords.
IsKeywordOf(w, e) ==
    LET core == IF Solid(w) = {} THEN <<>>
                ELSE SubSeq(w, CHOOSE a \in Solid(w) : \A n \in Solid(w) : a <= n,
                               CHOOSE b \in Solid(w) : \A n \in Solid(w) : n <= b)
    IN  \E k \in 1..Len(emotion_keywords[e]) : emotion_keywords[e][k] = core

\* The contribution the token at n owes to emotion e, in quarters: intensity
\* 1.5 or 1.0 by the raw token before it, times -0.5 if that token negates.
Contribution(ws, n, e) ==
    LET boosted == n > 1 /\ \E k \in 1..Len(intensifiers) : intensifiers[k] = ws[n - 1]
        negated == n > 1 /\ \E k \in 1..Len(negations) : negations[k] = ws[n - 1]
        quarters == IF boosted THEN 6 ELSE 4
    IN  IF ~IsKeywordOf(ws[n], e) THEN 0
        ELSE IF negated THEN (0 - quarters) \div 2
        ELSE quarters

RECURSIVE Contributions(_, _, _)
Contributions(ws, n, e) ==
    IF n = 0 THEN 0 ELSE Contribution(ws, n, e) + Contributions(ws, n - 1, e)

\* A text as written in the properties.
Happy == <<"h","a","p","p","y">>

ReallyHappy == <<"r","e","a","l","l","y"," ","h","a","p","p","y">>

NotHappy == <<"n","o","t"," ","h","a","p","p","y">>

Amazing == <<"a","m","a","z","i","n","g">>

TwoHappyEmoji == <<"U+1F60A", "U+1F60A">>

(***************************************************************************)
(* C1                                                                      *)
(***************************************************************************)
\* The steps a call may still take, at most.
Remaining ==
    CASE pc = "call" -> Len(text) + 5
      [] pc = "emojis" -> Len(words) + 3
      [] pc = "words" -> Len(words) - i + 3
      [] pc = "decide" -> 1
      [] OTHER -> 0

\* C1: every call of predict_emotion, whatever the text, comes to its end
\* (it is at one of the places of the code, each of which has a step for
\* every case, and every step brings the end nearer), and what it returns
\* is one label of the closed set of six; no call ends in another outcome.
C1_TerminatesWithLabel ==
    /\ [](pc \in {"call", "emojis", "words", "decide", "done"})
    /\ [](pc = "words" => i \in 1..(Len(words) + 1))
    /\ [](pc = "done" => result.emotion \in Labels)
    /\ [][Remaining' < Remaining /\ Remaining' >= 0]_vars

\* A call on a text with words has ended with a label that is not neutral.
C1_Witness ==
    /\ pc = "done"
    /\ Len(words) >= 2
    /\ result.emotion \in Emotions

(***************************************************************************)
(* C2                                                                      *)
(***************************************************************************)
\* The decision rule of C2 on a returned result r.
ThresholdRule(r) ==
    /\ DOMAIN r.scores = Emotions
    /\ MaxScore(r.scores) >= 2 =>
           /\ r.emotion \in Emotions
           /\ r.scores[r.emotion] = MaxScore(r.scores)
    /\ MaxScore(r.scores) < 2 => r.emotion = "neutral"
    /\ r.emotion # "neutral" => r.scores[r.emotion] >= 0

\* C2 as stated: for every text that is not empty, a highest accumulator of
\* 0.5 or more returns an emotion that holds it, a highest accumulator below
\* 0.5 returns neutral, and the five scores are returned in both cases.
C2_NonEmptyText == pc = "done" /\ text # <<>> => ThresholdRule(result)

\* C2, amended: the same for every text that is neither empty nor made of
\* white space only.
C2_ThresholdRule == pc = "done" /\ HasVisibleChar(text) => ThresholdRule(result)

\* Both sides of the threshold are met: a highest score of exactly 0.5 has
\* returned its emotion (the other side is C4_Witness, a score of -0.5).
C2_Witness ==
    /\ pc = "done"
    /\ HasVisibleChar(text)
    /\ MaxScore(result.scores) = 2
    /\ result.emotion = "happy"

(***************************************************************************)
(* C3                                                                      *)
(***************************************************************************)
\* The emotions that hold the highest score of s, as places of the
\* canonical order.
Tied(s) == {n \in 1..Len(EmotionOrder) : s[EmotionOrder[n]] = MaxScore(s)}

\* C3: when two or more emotions share a highest score of 0.5 or more, the
\* one that comes first in happy, sad, angry, surprise, fear is returned; a
\* keyword of happy and surprise resolves to happy.
C3_TieBreak ==
    /\ (pc = "done" /\ HasVisibleChar(text)
          /\ MaxScore(result.scores) >= 2 /\ Cardinality(Tied(result.scores)) >= 2)
       => \E n \in Tied(result.scores) :
             /\ result.emotion = EmotionOrder[n]
             /\ \A k \in Tied(result.scores) : n <= k
    /\ (pc = "done" /\ text = Amazing) => result.emotion = "happy"

\* A tie of sad with a later emotion, or of three, has been resolved.
C3_Witness ==
    /\ pc = "done"
    /\ HasVisibleChar(text)
    /\ MaxScore(result.scores) >= 2
    /\ Cardinality(Tied(result.scores)) >= 2
    /\ result.scores["happy"] = result.scores["sad"]

(***************************************************************************)
(* C4                                                                      *)
(***************************************************************************)
\* C4: a turn of the loop over the tokens adds to every emotion exactly the
\* contribution of the token at hand, which the token before it alone
\* decides and which is 1.0, 1.5 or -0.5 for a keyword; "happy" scores 1.0,
\* "really happy" 1.5, "not happy" -0.5 and neutral.
C4_TokenContribution ==
    /\ [][(pc = "words" /\ i <= Len(words)) =>
            \A e \in Emotions :
                /\ emotion_scores'[e] = emotion_scores[e] + Contribution(words, i, e)
                /\ IsKeywordOf(words[i], e) =>
                       emotion_scores'[e] - emotion_scores[e] \in {4, 6, -2}]_vars
    /\ [](pc = "done" =>
            /\ text = Happy => result.scores["happy"] = 4
            /\ text = ReallyHappy => result.scores["happy"] = 6
            /\ text = NotHappy =>
                   result.scores["happy"] = -2 /\ result.emotion = "neutral")

\* The keyword of "not happy" has been scored.
C4_Witness ==
    /\ pc = "words"
    /\ text = NotHappy
    /\ i = 3
    /\ emotion_scores["happy"] = -2


(***************************************************************************)
(* C5                                                                      *)
(***************************************************************************)
\* The text without its URL-like tokens: a run that begins with http or
\* with www. and goes on to the next white space is cut out.
RECURSIVE WithoutUrlTokens(_, _)
WithoutUrlTokens(t, p) ==
    IF p > Len(t) THEN <<>>
    ELSE IF /\ \/ StartsAt(Lower(t), p, <<"h","t","t","p">>)
               \/ StartsAt(Lower(t), p, <<"w","w","w",".">>)
            /\ NonSpaceEnd(t, p) > p + 4
    THEN WithoutUrlTokens(t, NonSpaceEnd(t, p))
    ELSE <<t[p]>> \o WithoutUrlTokens(t, p + 1)

\* C5: the scores returned for a text are the scores returned for the text
\* without its URL-like tokens, whatever those tokens hold (both texts with
\* something to score, so that both return a full vector).
C5_UrlTokensNeverContribute ==
    (/\ pc = "done"
     /\ HasVisibleChar(text)
     /\ HasVisibleChar(WithoutUrlTokens(text, 1)))
    => result.scores = predict_emotion(WithoutUrlTokens(text, 1)).scores

(***************************************************************************)
(* C6                                                                      *)
(***************************************************************************)
\* The text with one more word at its end.
WithAppended(t, kw) == t \o <<" ">> \o kw

\* No negation word stands at the end of the text: its last token is none,
\* neither as written nor as the code tokenizes it.
EndsWithoutNegation(t) ==
    \A ws \in {Split(Lower(t), 1), Split(preprocess_text(t), 1)} :
        ws # <<>> => ~\E k \in 1..Len(negations) : negations[k] = ws[Len(ws)]

\* The keywords of an emotion that the input texts are written with.
KeywordsInUse(e) ==
    {emotion_keywords[e][k] : k \in 1..Len(emotion_keywords[e])}
        \cap {Lower(c) : c \in Chunks}

\* C6: appending a keyword of an emotion to a text, with no negation word
\* in between, never lowers the score returned for that emotion.
C6_Monotone ==
    (pc = "done" /\ HasVisibleChar(text) /\ EndsWithoutNegation(text))
    => \A e \in Emotions :
          \A kw \in KeywordsInUse(e) :
              predict_emotion(WithAppended(text, kw)).scores[e] >= result.scores[e]

(***************************************************************************)
(* C7                                                                      *)
(***************************************************************************)
\* C7: every occurrence of an emoji glyph of an emotion is worth 2.0 to that
\* emotion, after the emoji pass and in the scores returned, where it stands
\* beside the contributions of the tokens whatever those tokens are; two
\* happy emoji alone score happy 4.0 and are labelled happy.
C7_EmojiPass ==
    /\ (pc = "words" /\ i = 1) =>
           \A e \in Emotions : emotion_scores[e] = 8 * Occurrences(text, e)
    /\ (pc = "done" /\ HasVisibleChar(text)) =>
           \A e \in Emotions :
               result.scores[e] =
                   8 * Occurrences(text, e) + Contributions(words, Len(words), e)
    /\ (pc = "done" /\ text = TwoHappyEmoji) =>
           result.scores["happy"] = 16 /\ result.emotion = "happy"

\* Two happy emoji that follow a negation word have been scored 4.0.
C7_Witness ==
    /\ pc = "done"
    /\ Occurrences(text, "happy") = 2
    /\ Len(words) = 2
    /\ words[1] = <<"n","o","t">>
    /\ result.scores["happy"] = 16

(***************************************************************************)
(* C8                                                                      *)
(***************************************************************************)
\* C8: the empty text and every text of white space only return neutral
\* with an empty score vector, and neither pass has run.
C8_BlankShortCircuit ==
    (pc = "done" /\ ~HasVisibleChar(text)) =>
        /\ result = [emotion |-> "neutral", scores |-> <<>>]
        /\ emotion_scores = NoScores
        /\ words = <<>>
        /\ i = 0

\* A text of white space only has returned.
C8_Witness ==
    /\ pc = "done"
    /\ Len(text) >= 2
    /\ ~HasVisibleChar(text)

(***************************************************************************)
(* C9                                                                      *)
(***************************************************************************)
\* C9: get_emotion_statistics of no texts returns total 0, an empty
\* distribution and the dominant label neutral; nothing is raised.
C9_EmptyBatch ==
    (pc = "returned" /\ texts = <<>>) =>
        statistics = [total_texts |-> 0,
                      emotion_distribution |-> <<>>,
                      dominant_emotion |-> "neutral"]

\* The call on no texts has returned.
C9_Witness ==
    /\ pc = "returned"
    /\ texts = <<>>
    /\ emotions = <<>>

(***************************************************************************)
(* C10                                                                     *)
(***************************************************************************)
\* The label of the text at n of the batch.
LabelAt(n) == predict_emotion(texts[n]).emotion

\* The number of texts of the batch with label l.
TextsLabelled(l) == Cardinality({n \in 1..Len(texts) : LabelAt(n) = l})

RECURSIVE SumCounts(_, _)
SumCounts(d, ls) ==
    IF ls = {} THEN 0
    ELSE LET l == CHOOSE x \in ls : TRUE IN d[l].count + SumCounts(d, ls \ {l})

\* C10: for a batch that is not empty, the total is the number of texts, the
\* labels listed are those that occur, each with the number of texts so
\* labelled (so the counts add up to the total), and the dominant label is
\* the first met, in the order of the batch, of those with the highest count.
C10_Statistics ==
    (pc = "returned" /\ texts # <<>>) =>
        /\ "raised" \notin DOMAIN statistics
        /\ statistics.total_texts = Len(texts)
        /\ DOMAIN statistics.emotion_distribution = {LabelAt(n) : n \in 1..Len(texts)}
        /\ \A l \in DOMAIN statistics.emotion_distribution :
               statistics.emotion_distribution[l].count = TextsLabelled(l)
        /\ SumCounts(statistics.emotion_distribution,
                     DOMAIN statistics.emotion_distribution) = Len(texts)
        /\ \E n \in 1..Len(texts) :
               /\ statistics.dominant_emotion = LabelAt(n)
               /\ \A m \in 1..Len(texts) : TextsLabelled(LabelAt(m)) <= TextsLabelled(LabelAt(n))
               /\ \A m \in 1..(n - 1) : TextsLabelled(LabelAt(m)) < TextsLabelled(LabelAt(n))

\* A batch in which two labels share the highest count has returned the one
\* met first, which is not the first of the canonical order.
C10_Witness ==
    /\ pc = "returned"
    /\ Len(texts) >= 2
    /\ TextsLabelled("happy") = TextsLabelled(LabelAt(1))
    /\ LabelAt(1) # "happy"
    /\ TextsLabelled("happy") > 0
    /\ statistics.dominant_emotion = LabelAt(1)

=============================================================================
